---------------------------- MODULE Spec2Model ----------------------------
(***************************************************************************)
(* A model of the four command-line tools of it-automation-toolkit:        *)
(*   log_analyzer.py, disk_monitor.py, network_checker.py, backup_tool.py. *)
(* The tools share nothing, so each has its own variables, its own initial *)
(* predicate and its own specification (SpecLog, SpecDisk, SpecNet,        *)
(* SpecBackup); while one tool runs the variables of the others stay idle. *)
(***************************************************************************)
EXTENDS Integers, Sequences, FiniteSets

VARIABLES
    \* ---- log_analyzer.py ----
    lpc,          \* position in main(): "check_exists", "cutoff", "open", "loop", "summary", "exited"
    file,         \* the log file on disk: "present", "missing", "unreadable"
    keyword,      \* args.keyword, a sequence of characters
    hours,        \* args.hours: None or Some(integer)
    now,          \* the wall clock, a datetime
    cutoff_time,  \* count_matches' cutoff_time: Unset, None or a datetime
    count,        \* count_matches' count
    scanned,      \* the lines the for loop has delivered so far
    lout,         \* what main() has printed
    lexit,        \* the exit status: None while running, then Some(0) or Some(1)
    lhist,        \* history: what happened in this run (not read by the program)
    \* ---- disk_monitor.py ----
    dpc,          \* position: "check", "returned", "exited"
    dpath,        \* args.path on disk: "ok", "missing", "denied"
    total,        \* shutil.disk_usage(path).total, in blocks
    used,         \* shutil.disk_usage(path).used, in blocks
    threshold,    \* args.threshold
    success,      \* what check_disk_usage returned: None, Some(TRUE) or Some(FALSE)
    dout,         \* what was printed (stdout and stderr)
    dexit,        \* the exit status: None while running, then Some(0) or Some(1)
    \* ---- network_checker.py ----
    npc,          \* position in main(): "gateway", "dns", "ping", "http", "summary", "exited"
    issues,       \* main's issues
    nran,         \* history: the checks run so far, each with what the system answered
    nout,         \* what main() has printed
    nexit,        \* the exit status: None while running, then Some(0) or Some(1)
    \* ---- backup_tool.py ----
    src,          \* the source path on disk: [kind, content]
    backups,      \* the entries '<source>.backup_<timestamp>', by timestamp
    clock,        \* the wall clock, in seconds
    calls,        \* history: one record per run of the tool
    edits         \* history: how often the source was edited

logVars == <<lpc, file, keyword, hours, now, cutoff_time, count, scanned, lout, lexit, lhist>>
diskVars == <<dpc, dpath, total, used, threshold, success, dout, dexit>>
netVars == <<npc, issues, nran, nout, nexit>>
bakVars == <<src, backups, clock, calls, edits>>

vars == <<logVars, diskVars, netVars, bakVars>>

\* Python's None is the empty tuple and a value that may be None is wrapped in a
\* tuple (a datetime is a tuple already), so that the two compare in TLC.
None == <<>>
Some(x) == <<x>>
Unset == <<"unset">>
ValueError == <<"ValueError">>
OverflowError == <<"OverflowError">>

(***************************************************************************)
(* Bounds of the model.                                                    *)
(***************************************************************************)
MaxLines == 2      \* lines in the log file
MaxTicks == 1      \* times the wall clock advances during a run
MaxTotal == 20     \* blocks of the file system the disk monitor checks
MaxThreshold == 100  \* the largest --threshold tried
MaxCalls == 3      \* runs of the backup tool
MaxClock == 1      \* seconds the clock advances between runs of the backup tool
MaxEdits == 1      \* edits of the source between runs of the backup tool

(***************************************************************************)
(* Characters and text.  A line is a sequence of one-character strings.    *)
(***************************************************************************)
Digit == {"0", "1", "2", "3", "4", "5", "6", "7", "8", "9"}

DigitVal(c) ==
    CASE c = "0" -> 0 [] c = "1" -> 1 [] c = "2" -> 2 [] c = "3" -> 3 [] c = "4" -> 4
      [] c = "5" -> 5 [] c = "6" -> 6 [] c = "7" -> 7 [] c = "8" -> 8 [] c = "9" -> 9

DigitChar(n) ==
    CASE n = 0 -> "0" [] n = 1 -> "1" [] n = 2 -> "2" [] n = 3 -> "3" [] n = 4 -> "4"
      [] n = 5 -> "5" [] n = 6 -> "6" [] n = 7 -> "7" [] n = 8 -> "8" [] n = 9 -> "9"

\* The decimal text of n on two and on four digits (used to write the input lines).
Two(n) == <<DigitChar((n \div 10) % 10), DigitChar(n % 10)>>
Four(n) == Two(n \div 100) \o Two(n % 100)

\* "[YYYY-MM-DDTHH:MM:SS]" with the given field values, valid or not.
Stamp(y, mo, d, h, mi, s) ==
    <<"[">> \o Four(y) \o <<"-">> \o Two(mo) \o <<"-">> \o Two(d) \o <<"T">>
            \o Two(h) \o <<":">> \o Two(mi) \o <<":">> \o Two(s) \o <<"]">>

KwError == <<"E", "R", "R", "O", "R">>
KwWarn == <<"W", "A", "R", "N">>
Sp == <<" ">>

LineRecent == <<"[", "2", "0", "2", "5", "-">> \o Stamp(2025, 11, 22, 10, 0, 0) \o KwError
LineAtCutoff == Stamp(2025, 11, 22, 9, 30, 0) \o Sp \o KwError
LineOld == Stamp(2025, 11, 22, 9, 0, 0) \o Sp \o KwError
LineNoStamp == <<"n", "o", " ">> \o KwError
LineBadFirst == Stamp(2025, 13, 99, 99, 99, 99) \o KwError \o Stamp(2025, 11, 22, 10, 0, 0)
LineLower == Stamp(2025, 11, 22, 11, 0, 0) \o <<"e", "r", "r", "o", "r", " ">> \o KwWarn

Lines ==
    {LineRecent, LineAtCutoff, LineOld, LineNoStamp, LineBadFirst, LineLower}

Keywords == {KwError, KwWarn}

\* --hours: absent, or any integer argparse's type=int accepts.
Hours == {None, Some(-1), Some(0), Some(1), Some(80000000)}

(***************************************************************************)
(* datetime.  A datetime value is <<ordinal, second of day, microsecond>>, *)
(* ordinal being the proleptic Gregorian day number (0001-01-01 is 1), so  *)
(* that Python's field-by-field comparison is the comparison of triples.   *)
(***************************************************************************)
MINYEAR == 1
MAXORDINAL == 3652059

IsLeap(y) == y % 4 = 0 /\ (y % 100 # 0 \/ y % 400 = 0)

DaysInMonth(y, m) ==
    CASE m \in {1, 3, 5, 7, 8, 10, 12} -> 31
      [] m \in {4, 6, 9, 11} -> 30
      [] m = 2 -> IF IsLeap(y) THEN 29 ELSE 28

RECURSIVE DaysBeforeMonth(_, _)
DaysBeforeMonth(y, m) ==
    IF m = 1 THEN 0 ELSE DaysBeforeMonth(y, m - 1) + DaysInMonth(y, m - 1)

DaysBeforeYear(y) ==
    (y - 1) * 365 + (y - 1) \div 4 - (y - 1) \div 100 + (y - 1) \div 400

Ymd2Ord(y, m, d) == DaysBeforeYear(y) + DaysBeforeMonth(y, m) + d

\* Mutant of DtGE: the comparison made strict (a > b).
DtGT(a, b) ==
    \/ a[1] > b[1]
    \/ a[1] = b[1] /\ a[2] > b[2]
    \/ a[1] = b[1] /\ a[2] = b[2] /\ a[3] > b[3]

\* a >= b on datetimes
DtGE(a, b) ==
    \/ a[1] > b[1]
    \/ a[1] = b[1] /\ a[2] > b[2]
    \/ a[1] = b[1] /\ a[2] = b[2] /\ a[3] >= b[3]

\* dt - timedelta(hours=h): the datetime, or "OverflowError" when the result
\* leaves year 1..9999.  timedelta(hours=h) is h \div 24 days and (h % 24) * 3600
\* seconds; the difference is normalised by floor division.
DtMinusHours(dt, h) ==
    LET secs == dt[2] - (h % 24) * 3600
        days == dt[1] - (h \div 24) + (IF secs < 0 THEN -1 ELSE 0)
    IN  IF 0 < days /\ days <= MAXORDINAL
        THEN <<days, secs % 86400, dt[3]>>
        ELSE OverflowError

\* dt + timedelta(hours=1), the clock moving on
DtPlusHour(dt) ==
    IF dt[2] + 3600 >= 86400 THEN <<dt[1] + 1, dt[2] + 3600 - 86400, dt[3]>>
    ELSE <<dt[1], dt[2] + 3600, dt[3]>>

(***************************************************************************)
(* parse_timestamp                                                         *)
(***************************************************************************)
PatternLen == 21

\* Whether r'\[(\d{4}-\d{2}-\d{2}T\d{2}:\d{2}:\d{2})\]' matches line at position i.
MatchAt(line, i) ==
    /\ i >= 1
    /\ i + PatternLen - 1 <= Len(line)
    /\ line[i] = "["
    /\ \A k \in {1, 2, 3, 4, 6, 7, 9, 10, 12, 13, 15, 16, 18, 19} : line[i + k] \in Digit
    /\ line[i + 5] = "-"
    /\ line[i + 8] = "-"
    /\ line[i + 11] = "T"
    /\ line[i + 14] = ":"
    /\ line[i + 17] = ":"
    /\ line[i + 20] = "]"

\* re.search scans from the left and stops at the first position that matches:
\* the position, or 0 for no match.
RECURSIVE ReSearchFrom(_, _)
ReSearchFrom(line, i) ==
    IF i + PatternLen - 1 > Len(line) THEN 0
    ELSE IF MatchAt(line, i) THEN i
    ELSE ReSearchFrom(line, i + 1)

ReSearch(line) == ReSearchFrom(line, 1)

Num2(line, i) == DigitVal(line[i]) * 10 + DigitVal(line[i + 1])
Num4(line, i) == Num2(line, i) * 100 + Num2(line, i + 2)

\* datetime.strptime(group(1), "%Y-%m-%dT%H:%M:%S") on the match at position i:
\* the datetime, or "ValueError".
Strptime(line, i) ==
    LET y == Num4(line, i + 1)
        mo == Num2(line, i + 6)
        d == Num2(line, i + 9)
        h == Num2(line, i + 12)
        mi == Num2(line, i + 15)
        s == Num2(line, i + 18)
    IN  IF /\ y >= MINYEAR
           /\ mo >= 1 /\ mo <= 12
           /\ d >= 1 /\ d <= DaysInMonth(y, mo)
           /\ h <= 23 /\ mi <= 59 /\ s <= 59
        THEN <<Ymd2Ord(y, mo, d), h * 3600 + mi * 60 + s, 0>>
        ELSE ValueError

\* Mutant of parse_timestamp: an occurrence that is no valid date/time is skipped
\* and the search goes on to the next one.
RECURSIVE FirstValidFrom(_, _)
FirstValidFrom(line, i) ==
    IF i + PatternLen - 1 > Len(line) THEN None
    ELSE IF MatchAt(line, i) /\ Strptime(line, i) # ValueError THEN Strptime(line, i)
    ELSE FirstValidFrom(line, i + 1)

parse_timestamp_first_valid(line) == FirstValidFrom(line, 1)

parse_timestamp(line) ==
    LET match == ReSearch(line)
    IN  IF match # 0
        THEN LET r == Strptime(line, match)
             IN  IF r = ValueError THEN None ELSE r
        ELSE None

(***************************************************************************)
(* count_matches                                                           *)
(***************************************************************************)
\* keyword in line
KeywordIn(kw, line) ==
    \E i \in 1..(Len(line) + 1) :
        /\ i + Len(kw) - 1 <= Len(line)
        /\ \A k \in 1..Len(kw) : line[i + k - 1] = kw[k]

\* Mutant of CutoffForLine: the cutoff recomputed from the clock at every line.
CutoffPerLine(cutoff, clk, hrs) ==
    IF hrs # None THEN DtMinusHours(clk, hrs[1]) ELSE None

\* The cutoff a line is compared against: the local cutoff_time assigned once on
\* lines 38-41; the loop body only reads it.
CutoffForLine(cutoff, clk, hrs) == cutoff

\* Mutant of LineCounts: a timestamp is demanded of every line, window or not.
LineCountsStamped(kw, line, cutoff) ==
    /\ KeywordIn(kw, line)
    /\ parse_timestamp(line) # None
    /\ (cutoff = None \/ DtGE(parse_timestamp(line), cutoff))

\* Lines 45-51: whether the line adds one to count.
LineCounts(kw, line, cutoff) ==
    IF KeywordIn(kw, line)
    THEN IF cutoff = None THEN TRUE
         ELSE LET log_time == parse_timestamp(line)
              IN  log_time # None /\ DtGE(log_time, cutoff)
    ELSE FALSE


(***************************************************************************)
(* log_analyzer.py: main() and count_matches() as steps of one run.  The   *)
(* file system and the clock are the environment: they may change between  *)
(* any two steps.                                                          *)
(***************************************************************************)
StartClock == <<Ymd2Ord(2025, 11, 22), 10 * 3600 + 30 * 60, 0>>
StartClocks == {StartClock, <<StartClock[1], StartClock[2], 1>>}

\* The variables of a tool that is not the one running.
IdleLog ==
    /\ lpc = "idle" /\ file = "missing" /\ keyword = <<>> /\ hours = None
    /\ now = <<1, 0, 0>> /\ cutoff_time = Unset /\ count = 0 /\ scanned = <<>>
    /\ lout = <<>> /\ lexit = None /\ lhist = <<>>

IdleDisk ==
    /\ dpc = "idle" /\ dpath = "missing" /\ total = 0 /\ used = 0 /\ threshold = 0
    /\ success = None /\ dout = <<>> /\ dexit = None

Absent == [kind |-> "absent", content |-> 0]

IdleNet ==
    /\ npc = "idle" /\ issues = 0 /\ nran = <<>> /\ nout = <<>> /\ nexit = None

IdleBak ==
    /\ src = Absent /\ backups = <<>> /\ clock = 0 /\ calls = <<>>
    /\ edits = MaxEdits

InitLog ==
    /\ IdleDisk /\ IdleNet /\ IdleBak
    /\ lpc = "check_exists"
    /\ file \in {"present", "missing", "unreadable"}
    /\ keyword \in Keywords
    /\ hours \in Hours
    /\ now \in StartClocks
    /\ cutoff_time = Unset
    /\ count = 0
    /\ scanned = <<>>
    /\ lout = <<>>
    /\ lexit = None
    /\ lhist = [existed |-> None, start |-> None, opened |-> FALSE, eof |-> FALSE,
                read_failed |-> FALSE, ticks |-> 0, used |-> <<>>, assigned |-> 0,
                last_read |-> None, moved |-> FALSE]

\* Mutant of ErrorExit: the exception is swallowed and the count so far returned.
SwallowError ==
    /\ lpc' = "summary"
    /\ UNCHANGED <<lout, lexit>>

\* main, lines 67-69: except Exception -> print, sys.exit(1)
ErrorExit ==
    /\ lout' = Append(lout, <<"Error reading file">>)
    /\ lexit' = Some(1)
    /\ lpc' = "exited"

\* main, lines 61-63
CheckExists ==
    /\ UNCHANGED <<diskVars, netVars, bakVars>>
    /\ lpc = "check_exists"
    /\ lhist' = [lhist EXCEPT !.existed = Some(file # "missing")]
    /\ IF file = "missing"
       THEN /\ lout' = Append(lout, <<"Error: File not found">>)
            /\ lexit' = Some(1)
            /\ lpc' = "exited"
       ELSE /\ lpc' = "cutoff"
            /\ UNCHANGED <<lout, lexit>>
    /\ UNCHANGED <<file, keyword, hours, now, cutoff_time, count, scanned>>

\* count_matches, lines 37-41 (an OverflowError of the subtraction is caught by main)
ComputeCutoff ==
    /\ UNCHANGED <<diskVars, netVars, bakVars>>
    /\ lpc = "cutoff"
    /\ count' = 0
    /\ LET c == IF hours # None THEN DtMinusHours(now, hours[1]) ELSE None
       IN  IF c = OverflowError
           THEN /\ ErrorExit
                /\ UNCHANGED cutoff_time
                /\ lhist' = [lhist EXCEPT !.start = now]
           ELSE /\ cutoff_time' = c
                /\ lpc' = "open"
                /\ lhist' = [lhist EXCEPT !.start = now, !.assigned = @ + 1]
                /\ UNCHANGED <<lout, lexit>>
    /\ UNCHANGED <<file, keyword, hours, now, scanned>>

\* count_matches, line 43: open() raises when the file is gone or may not be read
OpenFile ==
    /\ UNCHANGED <<diskVars, netVars, bakVars>>
    /\ lpc = "open"
    /\ IF file = "present"
       THEN /\ lpc' = "loop"
            /\ lhist' = [lhist EXCEPT !.opened = TRUE]
            /\ UNCHANGED <<lout, lexit>>
       ELSE /\ ErrorExit
            /\ UNCHANGED lhist
    /\ UNCHANGED <<file, keyword, hours, now, cutoff_time, count, scanned>>

\* count_matches, lines 44-51: one iteration of the for loop
ReadLine(line) ==
    /\ UNCHANGED <<diskVars, netVars, bakVars>>
    /\ lpc = "loop"
    /\ Len(scanned) < MaxLines
    /\ scanned' = Append(scanned, line)
    /\ LET c == CutoffForLine(cutoff_time, now, hours)
           parsed == IF KeywordIn(keyword, line) /\ c # None
                     THEN parse_timestamp(line) ELSE Unset
       IN  /\ count' = IF LineCounts(keyword, line, c) THEN count + 1 ELSE count
           /\ lhist' = [lhist EXCEPT
                  !.used = Append(@, [cutoff |-> c, parsed |-> parsed, before |-> count]),
                  !.last_read = now,
                  !.moved = @ \/ (lhist.last_read # None /\ lhist.last_read # now)]
    /\ UNCHANGED <<lpc, file, keyword, hours, now, cutoff_time, lout, lexit>>

\* line 44: the iteration raises (OSError, UnicodeDecodeError); main catches it
ReadFail ==
    /\ UNCHANGED <<diskVars, netVars, bakVars>>
    /\ lpc = "loop"
    /\ ErrorExit
    /\ lhist' = [lhist EXCEPT !.read_failed = TRUE]
    /\ UNCHANGED <<file, keyword, hours, now, cutoff_time, count, scanned>>

\* line 44 at the end of the file, line 52: return count
EndOfFile ==
    /\ UNCHANGED <<diskVars, netVars, bakVars>>
    /\ lpc = "loop"
    /\ lpc' = "summary"
    /\ lhist' = [lhist EXCEPT !.eof = TRUE]
    /\ UNCHANGED <<file, keyword, hours, now, cutoff_time, count, scanned, lout, lexit>>

\* Mutant of PrintSummary: the exit status of grep, 1 when nothing matched.
PrintSummaryGrepStatus ==
    /\ UNCHANGED <<diskVars, netVars, bakVars>>
    /\ lpc = "summary"
    /\ lout' = lout \o << <<"Log Analysis">>, <<"Matches found", count>> >>
    /\ lexit' = Some(IF count = 0 THEN 1 ELSE 0)
    /\ lpc' = "exited"
    /\ UNCHANGED <<file, keyword, hours, now, cutoff_time, count, scanned, lhist>>

\* main, lines 71-78, then the interpreter exits with status 0
PrintSummary ==
    /\ UNCHANGED <<diskVars, netVars, bakVars>>
    /\ lpc = "summary"
    /\ lout' = lout \o <<
           <<"Log Analysis">>,
           <<"Keyword", keyword>>,
           IF hours # None THEN <<"Time window: last N hours", hours[1]>>
                           ELSE <<"Time window: all entries">>,
           <<"Matches found", count>>,
           <<"Analysis complete">> >>
    /\ lexit' = Some(0)
    /\ lpc' = "exited"
    /\ UNCHANGED <<file, keyword, hours, now, cutoff_time, count, scanned, lhist>>

\* Environment: the file is removed between the existence check and the open.
RemoveFile ==
    /\ UNCHANGED <<diskVars, netVars, bakVars>>
    /\ lpc \in {"cutoff", "open"}
    /\ file = "present"
    /\ file' = "missing"
    /\ UNCHANGED <<lpc, keyword, hours, now, cutoff_time, count, scanned, lout, lexit, lhist>>

\* Environment: the wall clock advances while the file is read.
Tick ==
    /\ UNCHANGED <<diskVars, netVars, bakVars>>
    /\ lpc = "loop"
    /\ lhist.ticks < MaxTicks
    /\ now' = DtPlusHour(now)
    /\ lhist' = [lhist EXCEPT !.ticks = @ + 1]
    /\ UNCHANGED <<lpc, file, keyword, hours, cutoff_time, count, scanned, lout, lexit>>

NextLog ==
    \/ CheckExists
    \/ ComputeCutoff
    \/ OpenFile
    \/ \E line \in Lines : ReadLine(line)
    \/ ReadFail
    \/ EndOfFile
    \/ PrintSummary
    \/ RemoveFile
    \/ Tick

SpecLog == InitLog /\ [][NextLog]_vars


(***************************************************************************)
(* The statements checked of log_analyzer.py.  What they say of a line is  *)
(* written here from the specification's words, apart from the operators   *)
(* above: containment by SubSeq, the first occurrence as the least match   *)
(* position, calendar validity by a table of month lengths.                *)
(***************************************************************************)
Contains(line, kw) ==
    \E i \in 1..(Len(line) - Len(kw) + 1) : SubSeq(line, i, i + Len(kw) - 1) = kw

MonthLengths(y) ==
    IF y % 400 = 0 \/ (y % 4 = 0 /\ y % 100 # 0)
    THEN <<31, 29, 31, 30, 31, 30, 31, 31, 30, 31, 30, 31>>
    ELSE <<31, 28, 31, 30, 31, 30, 31, 31, 30, 31, 30, 31>>

Occurrences(line) == {i \in 1..(Len(line) - PatternLen + 1) : MatchAt(line, i)}

\* The least element of a non-empty set of positions.
Least(S) == CHOOSE i \in S : \A j \in S : i <= j

\* The fields of the occurrence at i: <<year, month, day, hour, minute, second>>
Fields(line, i) ==
    <<Num4(line, i + 1), Num2(line, i + 6), Num2(line, i + 9),
      Num2(line, i + 12), Num2(line, i + 15), Num2(line, i + 18)>>

ValidCalendar(f) ==
    /\ f[1] \in 1..9999
    /\ f[2] \in 1..12
    /\ f[3] \in 1..MonthLengths(f[1])[f[2]]
    /\ f[4] \in 0..23
    /\ f[5] \in 0..59
    /\ f[6] \in 0..59

\* The instant the fields name, as a datetime.
Instant(f) == <<Ymd2Ord(f[1], f[2], f[3]), f[4] * 3600 + f[5] * 60 + f[6], 0>>

\* The timestamp the specification extracts from a line: None, or a datetime.
ExtractedStamp(line) ==
    LET occ == Occurrences(line)
    IN  IF occ = {} THEN None
        ELSE LET f == Fields(line, Least(occ))
             IN  IF ValidCalendar(f) THEN Instant(f) ELSE None

\* t is not before c (t >= c), on datetimes
NotBefore(t, c) ==
    IF t[1] # c[1] THEN t[1] > c[1]
    ELSE IF t[2] # c[2] THEN t[2] > c[2]
    ELSE t[3] >= c[3]

\* The run returned from count_matches (line 52).
Returned == lhist.eof

\* The cutoff of a windowed run: the start instant minus N hours.
StartCutoff == DtMinusHours(lhist.start, hours[1])

InWindow(line) ==
    LET t == ExtractedStamp(line)
    IN  t # None /\ NotBefore(t, StartCutoff)

\* C1: with a window, the returned count is the number of lines that contain the
\* keyword, have an extractable timestamp T, and T >= cutoff = start - N hours
\* (inclusive lower bound; a valid T strictly before cutoff never counts).
C1_WindowedCount ==
    (Returned /\ hours # None) =>
        count = Cardinality({i \in 1..Len(scanned) :
                    Contains(scanned[i], keyword) /\ InWindow(scanned[i])})

\* A windowed run returned 1 for a line stamped exactly at the cutoff followed by a
\* line stamped before it.
C1_Witness ==
    /\ Returned
    /\ hours = Some(1)
    /\ keyword = KwError
    /\ scanned = <<LineAtCutoff, LineOld>>
    /\ ExtractedStamp(LineAtCutoff) = StartCutoff
    /\ count = 1

\* C2: with no window the count is the number of lines containing the keyword
\* (case-sensitive substring), whatever their timestamp; with or without a window a
\* line that does not contain the keyword never adds to the count.
C2_UnboundedCount ==
    /\ hours = None =>
           count = Cardinality({i \in 1..Len(scanned) : Contains(scanned[i], keyword)})
    /\ \A i \in 1..Len(scanned) :
           ~Contains(scanned[i], keyword) =>
               lhist.used[i].before = (IF i < Len(scanned) THEN lhist.used[i + 1].before
                                       ELSE count)

\* An unwindowed run counted a line with no timestamp and a line with a malformed
\* one; the keyword in lower case did not count.
C2_Witness ==
    /\ Returned
    /\ hours = None
    /\ keyword = KwError
    /\ scanned \in {<<LineNoStamp, LineBadFirst>>, <<LineLower, LineNoStamp>>}
    /\ count = Len(scanned) - (IF scanned[1] = LineLower THEN 1 ELSE 0)

\* C3: parse_timestamp consults only the first occurrence of the bracketed pattern:
\* it returns that occurrence's date/time when valid, None when the pattern is
\* absent or the first occurrence is invalid (even if a later one is valid); it
\* does not raise, so under a window such a keyword line is not counted and the
\* run that reads to the end exits 0.
C3_FirstOccurrenceOnly ==
    /\ \A i \in 1..Len(scanned) :
           lhist.used[i].parsed # Unset =>
               /\ lhist.used[i].parsed = ExtractedStamp(scanned[i])
               /\ ExtractedStamp(scanned[i]) = None =>
                      lhist.used[i].before = (IF i < Len(scanned)
                                              THEN lhist.used[i + 1].before ELSE count)
    /\ (lpc = "exited" /\ Returned) => lexit = Some(0)

\* A windowed run parsed a line whose first occurrence is invalid and whose second is
\* valid and in the window, did not count it, and exited 0.
C3_Witness ==
    /\ lpc = "exited"
    /\ lexit = Some(0)
    /\ hours = Some(1)
    /\ keyword = KwError
    /\ scanned = <<LineBadFirst>>
    /\ lhist.used[1].parsed = None
    /\ count = 0

\* C4: the cutoff is computed exactly once per run, before the first line is read,
\* and every line of the run is compared against that same value, however far the
\* clock advances between lines.
C4_CutoffOnce ==
    /\ lhist.assigned <= 1
    /\ scanned # <<>> => lhist.assigned = 1
    /\ \A i \in 1..Len(scanned) :
           /\ lhist.used[i].cutoff = cutoff_time
           /\ hours # None => lhist.used[i].cutoff = StartCutoff

\* Two lines of a windowed run were read with the clock advanced in between.
C4_Witness ==
    /\ hours = Some(1)
    /\ Len(scanned) = 2
    /\ lhist.moved
    /\ lhist.used[1].cutoff = lhist.used[2].cutoff

HasMessage(tag) == \E i \in 1..Len(lout) : lout[i][1] = tag

\* C5: when reading fails after any number of lines, the run exits non-zero with an
\* error message and prints no 'Matches found' summary.
C5_ReadFailureDiscardsCount ==
    lhist.read_failed =>
        /\ lexit = Some(1)
        /\ HasMessage("Error reading file")
        /\ ~HasMessage("Matches found")

\* Reading failed after two lines, one of which had been counted.
C5_Witness ==
    /\ lhist.read_failed
    /\ Len(scanned) = 2
    /\ count > 0
    /\ lexit = Some(1)

\* C6: the run exits 0 exactly when the input was opened and read to the end,
\* whatever the count; it exits non-zero when the path does not exist or cannot be
\* read; a path missing at the existence check is reported before any line is read.
C6_ExitStatus ==
    lpc = "exited" =>
        /\ lexit \in {Some(0), Some(1)}
        /\ lexit = Some(0) <=> (lhist.opened /\ lhist.eof)
        /\ lhist.existed = Some(FALSE) =>
               /\ lexit = Some(1)
               /\ lout = << <<"Error: File not found">> >>
               /\ scanned = <<>> /\ ~lhist.opened

\* The file was there at the existence check and gone at the open: exit 1.
C6_Witness ==
    /\ lpc = "exited"
    /\ lhist.existed = Some(TRUE)
    /\ file = "missing"
    /\ ~lhist.opened
    /\ lexit = Some(1)

\* A run that read to the end with no match exits 0.
C6_WitnessZero == lpc = "exited" /\ lhist.eof /\ count = 0 /\ lexit = Some(0)

\* C7: the window is 'all time' exactly when --hours is absent; a supplied N is a
\* non-negative integer and the cutoff is start - N hours, never later than the
\* instant the analysis started.
C7_WindowNonNegative ==
    cutoff_time # Unset =>
        /\ cutoff_time = None <=> hours = None
        /\ hours # None =>
               /\ hours[1] >= 0
               /\ cutoff_time = StartCutoff
               /\ NotBefore(lhist.start, cutoff_time)


(***************************************************************************)
(* disk_monitor.py.  used / total and the product by 100 are IEEE 754      *)
(* binary64 operations, rounded to nearest, ties to even.  A positive      *)
(* float is [bits, e]: MantBits bits, the first one 1 and of weight 2^e,   *)
(* each next one of half the weight; 0.0 is [bits |-> <<>>, e |-> 0].      *)
(***************************************************************************)
MantBits == 53

FloatZero == [bits |-> <<>>, e |-> 0]

RECURSIVE Pow2(_)
Pow2(n) == IF n = 0 THEN 1 ELSE 2 * Pow2(n - 1)

\* The binary digits of n, most significant first (none for 0).
RECURSIVE NatBits(_)
NatBits(n) == IF n = 0 THEN <<>> ELSE NatBits(n \div 2) \o <<n % 2>>

RECURSIVE BitsNat(_)
BitsNat(bits) ==
    IF bits = <<>> THEN 0 ELSE 2 * BitsNat(SubSeq(bits, 1, Len(bits) - 1)) + bits[Len(bits)]

\* n on exactly w binary digits (n < 2^w)
FixedBits(n, w) == [i \in 1..(w - Len(NatBits(n))) |-> 0] \o NatBits(n)

\* The arithmetic on bit sequences below works ChunkBits bits at a time, each
\* chunk an integer.
ChunkBits == 9

Min(a, b) == IF a < b THEN a ELSE b

\* The first n bits of the binary expansion of num / den, for 0 <= num < 2 * den.
RECURSIVE DivBits(_, _, _)
DivBits(num, den, n) ==
    IF n = 0 THEN <<>>
    ELSE IF num >= den THEN <<1>> \o DivBits(2 * (num - den), den, n - 1)
    ELSE LET w == Min(n, ChunkBits)
         IN  FixedBits((num * Pow2(w - 1)) \div den, w)
                 \o DivBits(2 * ((num * Pow2(w - 1)) % den), den, n - w)

\* What is left of num after those n bits (zero iff the expansion ended).
RECURSIVE DivRest(_, _, _)
DivRest(num, den, n) ==
    IF n = 0 THEN num
    ELSE IF num >= den THEN DivRest(2 * (num - den), den, n - 1)
    ELSE LET w == Min(n, ChunkBits)
         IN  DivRest(2 * ((num * Pow2(w - 1)) % den), den, n - w)

\* bits + 1, as a sequence of the same length (all ones wrap to all zeros)
RECURSIVE Increment(_)
Increment(bits) ==
    IF bits = <<>> THEN <<>>
    ELSE LET w == Min(Len(bits), ChunkBits)
             front == SubSeq(bits, 1, Len(bits) - w)
             low == BitsNat(SubSeq(bits, Len(bits) - w + 1, Len(bits)))
         IN  IF low + 1 < Pow2(w) THEN front \o FixedBits(low + 1, w)
             ELSE Increment(front) \o FixedBits(0, w)

\* Round the exact value with leading bits `bits` (more than MantBits of them, the
\* first one 1 and of weight 2^e) and a non-zero tail iff `sticky`.
RoundNearestEven(bits, e, sticky) ==
    LET m == SubSeq(bits, 1, MantBits)
        guard == bits[MantBits + 1]
        rest == sticky \/ \E k \in (MantBits + 2)..Len(bits) : bits[k] = 1
        up == guard = 1 /\ (rest \/ m[MantBits] = 1)
    IN  IF ~up THEN [bits |-> m, e |-> e]
        ELSE IF \A k \in 1..MantBits : m[k] = 1
        THEN [bits |-> <<1>> \o SubSeq(Increment(m), 1, MantBits - 1), e |-> e + 1]
        ELSE [bits |-> Increment(m), e |-> e]

\* How often num must be doubled to reach den (num > 0).
RECURSIVE Doublings(_, _)
Doublings(num, den) == IF num >= den THEN 0 ELSE 1 + Doublings(2 * num, den)

\* How often den must be doubled to exceed half of num (num >= den > 0).
RECURSIVE Halvings(_, _)
Halvings(num, den) == IF num < 2 * den THEN 0 ELSE 1 + Halvings(num, 2 * den)

\* int / int, Python's true division of non-negative integers, correctly rounded
TrueDiv(a, b) ==
    IF a = 0 THEN FloatZero
    ELSE LET up == Halvings(a, b)
             down == Doublings(a, b)
             num == a * Pow2(down)
             den == b * Pow2(up)
         IN  RoundNearestEven(DivBits(num, den, MantBits + 1), up - down,
                              DivRest(num, den, MantBits + 1) # 0)

\* The exact product bits * k + carry as a bit sequence, worked from the last
\* chunk up (k < 2^20).
RECURSIVE MulFrom(_, _, _)
MulFrom(bits, k, carry) ==
    IF bits = <<>> THEN NatBits(carry)
    ELSE LET w == Min(Len(bits), ChunkBits)
             front == SubSeq(bits, 1, Len(bits) - w)
             t == BitsNat(SubSeq(bits, Len(bits) - w + 1, Len(bits))) * k + carry
         IN  MulFrom(front, k, t \div Pow2(w)) \o FixedBits(t % Pow2(w), w)

\* float * k for a small positive integer k that is exactly representable
MulInt(x, k) ==
    IF x.bits = <<>> THEN FloatZero
    ELSE LET p == MulFrom(x.bits, k, 0)
         IN  RoundNearestEven(p \o <<0>>, x.e + Len(p) - MantBits, FALSE)

\* float <= int: Python compares a float with an int exactly
FloatLeInt(x, t) ==
    IF x.bits = <<>> THEN 0 <= t
    ELSE IF x.e < 0 THEN 0 < t
    ELSE LET whole == BitsNat(SubSeq(x.bits, 1, x.e + 1))
             frac == \E k \in (x.e + 2)..MantBits : x.bits[k] = 1
         IN  whole < t \/ (whole = t /\ ~frac)

\* lines 61-62: usage_percent = (used / total) * 100; is_safe = usage_percent <= threshold
UsagePercent(u, t) == MulInt(TrueDiv(u, t), 100)
IsSafe(u, t, th) == FloatLeInt(UsagePercent(u, t), th)


(***************************************************************************)
(* disk_monitor.py: main() and check_disk_usage()                          *)
(***************************************************************************)
InitDisk ==
    /\ IdleLog /\ IdleNet /\ IdleBak
    /\ dpc = "check"
    /\ dpath \in {"ok", "missing", "denied"}
    /\ total \in 0..MaxTotal
    /\ used \in 0..total
    /\ dpath # "ok" => total = 0
    /\ threshold \in 0..MaxThreshold
    /\ success = None
    /\ dout = <<>>
    /\ dexit = None

\* check_disk_usage, lines 55-75, called from main on line 83
CheckDiskUsage ==
    /\ dpc = "check"
    /\ IF dpath # "ok"
       THEN \* get_disk_usage raises FileNotFoundError or PermissionError: lines 57-59
            /\ dout' = <<"Error">>
            /\ dexit' = Some(1)
            /\ dpc' = "exited"
            /\ UNCHANGED success
       ELSE IF total = 0
       THEN \* line 61 raises ZeroDivisionError, which nothing catches
            /\ dout' = <<"Traceback">>
            /\ dexit' = Some(1)
            /\ dpc' = "exited"
            /\ UNCHANGED success
       ELSE /\ dout' = <<"Path", "Total", "Used", "Free">>
                          \o (IF IsSafe(used, total, threshold)
                              THEN <<"Disk usage is within acceptable limits.">>
                              ELSE <<"WARNING">>)
            /\ success' = Some(IsSafe(used, total, threshold))
            /\ dpc' = "returned"
            /\ UNCHANGED dexit
    /\ UNCHANGED <<dpath, total, used, threshold>>
    /\ UNCHANGED <<logVars, netVars, bakVars>>

\* main, line 84: sys.exit(0 if success else 1)
DiskExit ==
    /\ dpc = "returned"
    /\ dexit' = Some(IF success = Some(TRUE) THEN 0 ELSE 1)
    /\ dpc' = "exited"
    /\ UNCHANGED <<dpath, total, used, threshold, success, dout>>
    /\ UNCHANGED <<logVars, netVars, bakVars>>

NextDisk ==
    \/ CheckDiskUsage
    \/ DiskExit

SpecDisk == InitDisk /\ [][NextDisk]_vars

\* C8: the disk monitor exits 0 iff used/total*100 <= threshold (usage equal to the
\* threshold is within limits, any usage above it exits 1), for total > 0; a path
\* that does not exist or is not accessible exits non-zero and prints no usage
\* figures.
C8_ExitReflectsUsage ==
    dpc = "exited" =>
        /\ (dpath = "ok" /\ total > 0) =>
               (dexit = Some(0) <=> used * 100 <= threshold * total)
        /\ dpath # "ok" =>
               /\ dexit = Some(1)
               /\ \A i \in 1..Len(dout) : dout[i] \notin {"Total", "Used", "Free"}


(***************************************************************************)
(* network_checker.py.  What the system answers to a probe is the          *)
(* environment's choice.                                                   *)
(***************************************************************************)
\* subprocess.run of ping: its return code, or an exception (no ping binary)
PingOutcomes == {"rc0", "rc1", "rc2", "exception"}
\* socket.gethostbyname: an address, or socket.gaierror
DnsOutcomes == {"address", "gaierror"}
\* requests.get: the status of the response, or an exception
HttpOutcomes == {"200", "404", "503", "exception"}

\* lines 28-41
ping(outcome) == outcome = "rc0"

\* lines 43-51: the address, or None
resolve_dns(outcome) == IF outcome = "gaierror" THEN None ELSE Some("93.184.216.34")

\* lines 53-62
check_http(outcome) == outcome = "200"

InitNet ==
    /\ IdleLog /\ IdleDisk /\ IdleBak
    /\ npc = "gateway"
    /\ issues = 0
    /\ nran = <<>>
    /\ nout = <<"Network Diagnostics">>
    /\ nexit = None

\* One check of main: print the verdict, count a failure, go on to the next check.
Checked(name, outcome, ok, next) ==
    /\ nran' = Append(nran, [check |-> name, outcome |-> outcome])
    /\ nout' = Append(nout, <<name, IF ok THEN "OK" ELSE "FAILED">>)
    /\ issues' = IF ok THEN issues ELSE issues + 1
    /\ npc' = next
    /\ UNCHANGED nexit
    /\ UNCHANGED <<logVars, diskVars, bakVars>>

\* Mutant of CheckGateway: the run stops at a gateway that does not answer.
CheckGatewayFailFast(outcome) ==
    /\ npc = "gateway"
    /\ nran' = Append(nran, [check |-> "gateway", outcome |-> outcome])
    /\ nout' = Append(nout, <<"gateway", IF ping(outcome) THEN "OK" ELSE "FAILED">>)
    /\ issues' = IF ping(outcome) THEN issues ELSE issues + 1
    /\ IF ping(outcome) THEN npc' = "dns" /\ UNCHANGED nexit
       ELSE npc' = "exited" /\ nexit' = Some(1)
    /\ UNCHANGED <<logVars, diskVars, bakVars>>

\* main, lines 68-74
CheckGateway(outcome) ==
    /\ npc = "gateway"
    /\ Checked("gateway", outcome, ping(outcome), "dns")

\* main, lines 76-83
CheckDns(outcome) ==
    /\ npc = "dns"
    /\ Checked("dns", outcome, resolve_dns(outcome) # None, "ping")

\* main, lines 85-91
CheckPing(outcome) ==
    /\ npc = "ping"
    /\ Checked("ping", outcome, ping(outcome), "http")

\* main, lines 93-99
CheckHttp(outcome) ==
    /\ npc = "http"
    /\ Checked("http", outcome, check_http(outcome), "summary")

\* main, lines 101-108
NetSummary ==
    /\ npc = "summary"
    /\ nout' = Append(nout, IF issues = 0 THEN <<"All network checks passed.">>
                            ELSE <<"network check(s) failed.", issues>>)
    /\ nexit' = Some(IF issues = 0 THEN 0 ELSE 1)
    /\ npc' = "exited"
    /\ UNCHANGED <<issues, nran>>
    /\ UNCHANGED <<logVars, diskVars, bakVars>>

NextNet ==
    \/ \E o \in PingOutcomes : CheckGateway(o)
    \/ \E o \in DnsOutcomes : CheckDns(o)
    \/ \E o \in PingOutcomes : CheckPing(o)
    \/ \E o \in HttpOutcomes : CheckHttp(o)
    \/ NetSummary

SpecNet == InitNet /\ [][NextNet]_vars

CheckOrder == <<"gateway", "dns", "ping", "http">>

\* The probe answered as the check wants: ping returned 0, the name resolved, the
\* response was a 200.
Passed(r) == r.outcome \in {"rc0", "address", "200"}

Failures == Cardinality({i \in 1..Len(nran) : ~Passed(nran[i])})

Timestamps == 0..MaxClock

InitBackup ==
    /\ IdleLog /\ IdleDisk /\ IdleNet
    /\ src \in {Absent, [kind |-> "file", content |-> 0], [kind |-> "dir", content |-> 0],
                [kind |-> "special", content |-> 0]}
    /\ backups = [t \in Timestamps |-> Absent]
    /\ clock = 0
    /\ calls = <<>>
    /\ edits = 0

\* What one call did, for the history.
CallRecord(ret, after) ==
    [ret |-> ret, stamp |-> clock, source |-> src, before |-> backups, after |-> after]

\* create_backup, lines 25-27 and 38-40: nothing to copy
BackupRefused ==
    /\ Len(calls) < MaxCalls
    /\ src.kind \in {"absent", "special"}
    /\ calls' = Append(calls, CallRecord(FALSE, backups))
    /\ UNCHANGED <<src, backups, clock, edits>>
    /\ UNCHANGED <<logVars, diskVars, netVars>>

\* create_backup, lines 30-35 and 42-43: shutil.copy2 opens backup_name for writing,
\* whether it exists or not, and writes the source's data into it
BackupFile ==
    /\ Len(calls) < MaxCalls
    /\ src.kind = "file"
    /\ backups' = [backups EXCEPT ![clock] = src]
    /\ calls' = Append(calls, CallRecord(TRUE, backups'))
    /\ UNCHANGED <<src, clock, edits>>
    /\ UNCHANGED <<logVars, diskVars, netVars>>

\* lines 35 and 44-46: copy2 raises (disk full, no permission); backup_name is left
\* as it was when the open failed, truncated when a write failed
BackupFileFails ==
    /\ Len(calls) < MaxCalls
    /\ src.kind = "file"
    /\ \E written \in BOOLEAN :
           /\ backups' = IF written
                         THEN [backups EXCEPT ![clock] = [kind |-> "partial", content |-> src.content]]
                         ELSE backups
           /\ calls' = Append(calls, CallRecord(FALSE, backups'))
    /\ UNCHANGED <<src, clock, edits>>
    /\ UNCHANGED <<logVars, diskVars, netVars>>

\* lines 36-37 and 42-46: shutil.copytree makes the directory backup_name and raises
\* FileExistsError when it is there already
BackupDir ==
    /\ Len(calls) < MaxCalls
    /\ src.kind = "dir"
    /\ IF backups[clock].kind = "absent"
       THEN /\ backups' = [backups EXCEPT ![clock] = src]
            /\ calls' = Append(calls, CallRecord(TRUE, backups'))
       ELSE /\ calls' = Append(calls, CallRecord(FALSE, backups))
            /\ UNCHANGED backups
    /\ UNCHANGED <<src, clock, edits>>
    /\ UNCHANGED <<logVars, diskVars, netVars>>

\* lines 37 and 44-46: copytree raises part-way through a new directory
BackupDirFails ==
    /\ Len(calls) < MaxCalls
    /\ src.kind = "dir"
    /\ backups[clock].kind = "absent"
    /\ backups' = [backups EXCEPT ![clock] = [kind |-> "partial", content |-> src.content]]
    /\ calls' = Append(calls, CallRecord(FALSE, backups'))
    /\ UNCHANGED <<src, clock, edits>>
    /\ UNCHANGED <<logVars, diskVars, netVars>>

\* Environment: a second passes.
ClockSecond ==
    /\ clock < MaxClock
    /\ clock' = clock + 1
    /\ UNCHANGED <<src, backups, calls, edits>>
    /\ UNCHANGED <<logVars, diskVars, netVars>>

\* Environment: the user edits the source between two runs.
EditSource ==
    /\ edits < MaxEdits
    /\ src.kind \in {"file", "dir"}
    /\ src' = [src EXCEPT !.content = @ + 1]
    /\ edits' = edits + 1
    /\ UNCHANGED <<backups, clock, calls>>
    /\ UNCHANGED <<logVars, diskVars, netVars>>

NextBackup ==
    \/ BackupRefused
    \/ BackupFile
    \/ BackupFileFails
    \/ BackupDir
    \/ BackupDirFails
    \/ ClockSecond
    \/ EditSource

SpecBackup == InitBackup /\ [][NextBackup]_vars

\* C10: after any sequence of create_backup calls on one source (two in the same
\* second included) no call has altered or replaced a backup an earlier call made:
\* a call that returns True created an entry '<source>.backup_<timestamp>' that did
\* not exist before; a call on a missing source returns False and creates nothing.
C10_BackupsNeverReplaced ==
    \A i \in 1..Len(calls) :
        LET c == calls[i]
        IN  /\ c.ret =>
                /\ c.before[c.stamp].kind = "absent"
                /\ c.after[c.stamp] = c.source
            /\ \A t \in Timestamps :
                c.before[t].kind # "absent" => c.after[t] = c.before[t]
            /\ c.source.kind = "absent" => (~c.ret /\ c.after = c.before)

=============================================================================
